---- MODULE Spec2Model ----
(***************************************************************************)
(* Model of pSystem.py: Component and System (series / parallel           *)
(* reliability combination), their p(t) and System.condProb.              *)
(*                                                                         *)
(* The heap holds the Python objects: Components, Systems and the list    *)
(* objects Systems refer to (System.__init__ stores the reference it is   *)
(* given; the default argument is one list object created when the class  *)
(* body is executed).  Probabilities are binary floating-point numbers    *)
(* with MantBits significant bits, every operation rounded to nearest,    *)
(* ties to even, as numpy's float64 arithmetic rounds (with 53 bits).     *)
(***************************************************************************)
EXTENDS Integers, Sequences, FiniteSets, TLC

\* ------------------------------------------------------------------ bounds
MaxNodes == 2        \* Components and Systems the caller constructs
MaxLists == 1        \* list objects the caller creates (the default list is list 0)
MaxLen   == 2        \* longest children list
MaxRate  == 2        \* Component rates are 1..MaxRate
MaxT     == 1        \* times are 0..MaxT
MantBits == 2        \* significant bits of a float

Rates   == 1..MaxRate
Times   == 0..MaxT
ListIds == 0..MaxLists
DefaultList == 0

\* Frames the interpreter allows before it raises RecursionError; larger than
\* the depth of any acyclic structure of MaxNodes nodes.
RecLimit == MaxNodes + 2

\* ------------------------------------------------------------------ floats
\* A float in [0,1] is m / 2^e with m odd (or m = 0, e = 0) and m < 2^MantBits.
Pow2F[k \in Nat] == IF k = 0 THEN 1 ELSE 2 * Pow2F[k - 1]
Pow2(k) == Pow2F[k]

BitLenF[m \in Nat] == IF m = 0 THEN 0 ELSE 1 + BitLenF[m \div 2]
BitLen(m) == BitLenF[m]

NormF[m \in Nat, e \in Nat] ==
  IF m = 0 THEN [m |-> 0, e |-> 0]
  ELSE IF e > 0 /\ m % 2 = 0 THEN NormF[m \div 2, e - 1]
  ELSE [m |-> m, e |-> e]
Norm(m, e) == NormF[m, e]

\* The exact value m / 2^e rounded to MantBits bits, round-half-to-even.
Round(m, e) ==
  LET k == BitLen(m) - MantBits
  IN  IF k <= 0 THEN Norm(m, e)
      ELSE LET q    == m \div Pow2(k)
               r    == m % Pow2(k)
               half == Pow2(k - 1)
               up   == r > half \/ (r = half /\ q % 2 = 1)
           IN  Norm(IF up THEN q + 1 ELSE q, e - k)

One  == [m |-> 1, e |-> 0]
Zero == [m |-> 0, e |-> 0]

\* a * b in floating point
Mul(a, b) == Round(a.m * b.m, a.e + b.e)

\* 1 - a in floating point, for a in [0,1]
OneMinus(a) == Round(Pow2(a.e) - a.m, a.e)

\* exact comparisons and distances of floats (not operations of the program)
Leq(a, b) == a.m * Pow2(b.e) <= b.m * Pow2(a.e)
AbsDiff2(a, b, s) ==   \* |a - b| * 2^s, for s >= a.e, b.e
  LET x == a.m * Pow2(s - a.e)
      y == b.m * Pow2(s - b.e)
  IN  IF x >= y THEN x - y ELSE y - x

\* e^-n to 24 fractional bits, n = 0..12 (entry n+1): numpy's exp before the
\* final rounding to the float format.
ExpFix ==
  << 16777216, 6171993, 2270549, 835288, 307285, 113044, 41587,
     15299, 5628, 2070, 762, 280, 103 >>

\* np.exp(-n)
ExpNeg(n) == Round(ExpFix[n + 1], 24)

\* ------------------------------------------------------------------ state
VARIABLES
  nodes,     \* the objects constructed so far, by identity: Components and Systems
  lists,     \* the list objects: lists[0] is __init__'s default argument
  nlists,    \* list objects the caller has created
  last,      \* the call the latest step made (p or condProb) and its outcome
  stack,     \* frames of the p(t) evaluation in progress
  root,      \* the node and time of that evaluation
  outcome    \* how that evaluation ended

vars == << nodes, lists, nlists, last, stack, root, outcome >>

NodeIds == 1..Len(nodes)

Component(l) ==
  [kind |-> "Component", l |-> l, comps |-> 0, parallel |-> FALSE, series |-> FALSE]
System(componentsAndSubSystems, parallel, series) ==
  [kind |-> "System", l |-> 0, comps |-> componentsAndSubSystems,
   parallel |-> parallel, series |-> series]

IsSystem(ns, n) == ns[n].kind = "System"
Children(ns, ls, n) == ls[ns[n].comps]

\* ------------------------------------------------------------------ outcomes
\* What a call produces: a float, nan, None, or a raised exception.
Num(v)   == [k |-> "num", v |-> v]
NaN      == [k |-> "nan", v |-> Zero]
None     == [k |-> "None", v |-> Zero]
Raise(x) == [k |-> x, v |-> Zero]

Raised(o) == o.k \in {"TypeError", "RecursionError"}

\* 1 - x on Python operands
PyOneMinus(o) ==
  CASE o.k = "num"  -> Num(OneMinus(o.v))
    [] o.k = "nan"  -> NaN
    [] o.k = "None" -> Raise("TypeError")
    [] OTHER        -> o

\* x * y on Python operands, x evaluated before y
PyMul(x, y) ==
  IF Raised(x) THEN x
  ELSE IF Raised(y) THEN y
  ELSE IF x.k = "None" \/ y.k = "None" THEN Raise("TypeError")
  ELSE IF x.k = "nan" \/ y.k = "nan" THEN NaN
  ELSE Num(Mul(x.v, y.v))

\* The conversion np.fromiter(..., float) applies to an item: None becomes nan.
ToFloat(o) == IF o.k = "None" THEN NaN ELSE o

\* np.prod of an array of floats: the left-to-right product, 1.0 when empty.
RECURSIVE Prod(_)
ProdEmptyZero(a) ==
  IF a = << >> THEN Num(Zero)
  ELSE IF Len(a) = 1 THEN a[1]
  ELSE PyMul(Prod(SubSeq(a, 1, Len(a) - 1)), a[Len(a)])

Prod(a) ==
  IF a = << >> THEN Num(One)
  ELSE PyMul(Prod(SubSeq(a, 1, Len(a) - 1)), a[Len(a)])

\* Component.p
ComponentP(c, t) == Num(ExpNeg(c.l * t))

\* ------------------------------------------------------------------ System.p
\* generateQ and generateP applied to what c.p(t) produced
GenerateQIdentity(o) == o
GenerateQ(o) == PyOneMinus(o)
GenerateP(o) == o

\* What the two branches return from the array np.fromiter built
ParallelResultNoComplement(allQ) == Prod(allQ)
ParallelResult(allQ) == PyOneMinus(Prod(allQ))
SeriesResult(allP)   == Prod(allP)

\* The branch System.p takes: parallel is tested first, series only if it is
\* not set; with neither the method falls off its end and returns None.
Branch(s) ==
  IF s.parallel THEN "parallel" ELSE IF s.series THEN "series" ELSE "none"

\* n.p(t) with `fuel` frames left.  Items is the generator np.fromiter drains:
\* one item per child, in list order, ending at the first item that raises.
RECURSIVE NodeP(_, _, _, _, _)
RECURSIVE Items(_, _, _, _, _, _)
Items(ns, ls, cs, t, fuel, b) ==
  IF cs = << >> THEN << >>
  ELSE LET r == NodeP(ns, ls, Head(cs), t, fuel)
           o == IF b = "parallel" THEN GenerateQ(r) ELSE GenerateP(r)
       IN  IF Raised(o) THEN << o >>
           ELSE << o >> \o Items(ns, ls, Tail(cs), t, fuel, b)

FromIter(items) ==
  IF items # << >> /\ Raised(items[Len(items)]) THEN << items[Len(items)] >>
  ELSE [i \in 1..Len(items) |-> ToFloat(items[i])]

SystemP(ns, ls, n, t, fuel) ==
  LET b == Branch(ns[n])
  IN  IF b = "none" THEN None
      ELSE LET a == FromIter(Items(ns, ls, Children(ns, ls, n), t, fuel - 1, b))
           IN  IF a # << >> /\ Raised(a[1]) THEN a[1]
               ELSE IF b = "parallel" THEN ParallelResult(a)
               ELSE SeriesResult(a)

NodeP(ns, ls, n, t, fuel) ==
  IF fuel = 0 THEN Raise("RecursionError")
  ELSE IF IsSystem(ns, n) THEN SystemP(ns, ls, n, t, fuel)
  ELSE ComponentP(ns[n], t)

\* The children whose p(t) a call of n.p(t) invoked, in order.
Queried(ns, ls, n, t, fuel) ==
  IF fuel = 0 \/ ~IsSystem(ns, n) \/ Branch(ns[n]) = "none" THEN << >>
  ELSE LET cs == Children(ns, ls, n)
       IN  SubSeq(cs, 1, Len(Items(ns, ls, cs, t, fuel - 1, Branch(ns[n]))))

P(n, t) == NodeP(nodes, lists, n, t, RecLimit)

\* System.condProb(dependence, t, negate): self.p(t) is evaluated before
\* dependence.p(t), and an exception of either ends the call.
CondProbSwapped(ns, ls, s, dependence, t, negate) ==
  IF negate
  THEN PyMul(NodeP(ns, ls, s, t, RecLimit), NodeP(ns, ls, dependence, t, RecLimit))
  ELSE PyMul(NodeP(ns, ls, s, t, RecLimit),
             PyOneMinus(NodeP(ns, ls, dependence, t, RecLimit)))

CondProb(ns, ls, s, dependence, t, negate) ==
  IF negate
  THEN PyMul(NodeP(ns, ls, s, t, RecLimit),
             PyOneMinus(NodeP(ns, ls, dependence, t, RecLimit)))
  ELSE PyMul(NodeP(ns, ls, s, t, RecLimit), NodeP(ns, ls, dependence, t, RecLimit))

\* ------------------------------------------------------------------ actions
NoCall == [op |-> "none", self |-> 0, dep |-> 0, t |-> 0, negate |-> "omitted",
           out |-> None, q |-> << >>]
NoEval  == [k |-> "idle", v |-> Zero]
Pending == [k |-> "pending", v |-> Zero]
NoRoot  == << 0, 0 >>

\* The caller runs one statement at a time: nothing of it runs while a call
\* of p is in progress.
Idle == stack = << >>
Forget == last' = NoCall /\ stack' = << >> /\ root' = NoRoot /\ outcome' = NoEval

Init ==
  /\ nodes = << >>
  /\ lists = [i \in ListIds |-> << >>]
  /\ nlists = 0
  /\ last = NoCall
  /\ stack = << >>
  /\ root = NoRoot
  /\ outcome = NoEval

SeqsUpTo(S, k) == UNION {[1..j -> S] : j \in 0..k}

\* Component(l)
NewComponent(l) ==
  /\ Idle
  /\ Len(nodes) < MaxNodes
  /\ nodes' = Append(nodes, Component(l))
  /\ Forget
  /\ UNCHANGED << lists, nlists >>

\* The caller builds a list object, [c1, ..., ck]
NewList(cs) ==
  /\ Idle
  /\ nlists < MaxLists
  /\ nlists' = nlists + 1
  /\ lists' = [lists EXCEPT ![nlists + 1] = cs]
  /\ Forget
  /\ UNCHANGED << nodes >>

\* System(li, parallel, series); li = DefaultList is the call without a list
SystemInit(li, parallel, series) ==
  /\ Idle
  /\ Len(nodes) < MaxNodes
  /\ nodes' = Append(nodes, System(li, parallel, series))
  /\ Forget
  /\ UNCHANGED << lists, nlists >>

\* The caller appends to a list object it can reach: one it created, or the
\* default list through the comps attribute of a System built without a list.
ListAppend(li, n) ==
  /\ Idle
  /\ li = DefaultList => \E s \in NodeIds : IsSystem(nodes, s) /\ nodes[s].comps = li
  /\ Len(lists[li]) < MaxLen
  /\ lists' = [lists EXCEPT ![li] = Append(@, n)]
  /\ Forget
  /\ UNCHANGED << nodes, nlists >>

\* n.p(t), Component or System
CallPDraining(n, t) ==
  /\ Idle
  /\ last' = [op |-> "p", self |-> n, dep |-> 0, t |-> t, negate |-> "omitted",
              out |-> P(n, t), q |-> Queried(nodes, lists, n, t, RecLimit)]
  /\ stack' = << >> /\ root' = NoRoot /\ outcome' = NoEval
  /\ lists' = IF IsSystem(nodes, n) THEN [lists EXCEPT ![nodes[n].comps] = << >>]
              ELSE lists
  /\ UNCHANGED << nodes, nlists >>

CallP(n, t) ==
  /\ Idle
  /\ last' = [op |-> "p", self |-> n, dep |-> 0, t |-> t, negate |-> "omitted",
              out |-> P(n, t), q |-> Queried(nodes, lists, n, t, RecLimit)]
  /\ stack' = << >> /\ root' = NoRoot /\ outcome' = NoEval
  /\ UNCHANGED << nodes, lists, nlists >>

\* s.condProb(dependence, t) and s.condProb(dependence, t, negate): the
\* parameter negate is False when the caller omits it.
NegateArgs == {"omitted", "False", "True"}
NegateParam(arg) == arg = "True"

CallCondProb(s, dependence, t, arg) ==
  /\ Idle
  /\ IsSystem(nodes, s)
  /\ last' = [op |-> "condProb", self |-> s, dep |-> dependence, t |-> t,
              negate |-> arg,
              out |-> CondProb(nodes, lists, s, dependence, t, NegateParam(arg)),
              q |-> << >>]
  /\ stack' = << >> /\ root' = NoRoot /\ outcome' = NoEval
  /\ UNCHANGED << nodes, lists, nlists >>

Next ==
  \/ \E l \in Rates : NewComponent(l)
  \/ \E cs \in SeqsUpTo(NodeIds, MaxLen) : NewList(cs)
  \/ \E li \in 0..nlists, parallel \in BOOLEAN, series \in BOOLEAN :
       SystemInit(li, parallel, series)
  \/ \E li \in 0..nlists, n \in NodeIds : ListAppend(li, n)
  \/ \E n \in NodeIds, t \in Times : CallP(n, t)
  \/ \E s \in NodeIds, d \in NodeIds, t \in Times, arg \in NegateArgs :
       CallCondProb(s, d, t, arg)

Spec == Init /\ [][Next]_vars

\* ------------------------------------------------------------------ p, frame by frame
\* The same p(t), one interpreter frame at a time: a frame is a call of p on
\* node n that has drained the first i - 1 items of its generator into acc.
Frame(n) == [n |-> n, i |-> 1, acc |-> << >>]

\* Each of the following gives the stack and the outcome after one step.
\* Nobody catches an exception: it unwinds every frame.
Unwind(x) == [stack |-> << >>, outcome |-> x]

\* The frame on top returns r to the generator of the frame below it.
Return(r) ==
  IF Len(stack) = 1 THEN [stack |-> << >>, outcome |-> r]
  ELSE LET d == Len(stack) - 1
           f == stack[d]
           o == IF Branch(nodes[f.n]) = "parallel" THEN GenerateQ(r) ELSE GenerateP(r)
       IN  IF Raised(o) THEN Unwind(o)
           ELSE [stack |-> [SubSeq(stack, 1, d) EXCEPT
                              ![d] = [f EXCEPT !.i = @ + 1, !.acc = Append(@, o)]],
                 outcome |-> outcome]

\* The generator's next item: the call of p on child c.
Enter(c) ==
  IF Len(stack) = RecLimit THEN Unwind(Raise("RecursionError"))
  ELSE [stack |-> Append(stack, Frame(c)), outcome |-> outcome]

\* What the frame on top does next.
Step ==
  LET f  == stack[Len(stack)]
      cs == Children(nodes, lists, f.n)
      b  == Branch(nodes[f.n])
  IN  IF ~IsSystem(nodes, f.n) THEN Return(ComponentP(nodes[f.n], root[2]))
      ELSE IF b = "none" THEN Return(None)
      ELSE IF f.i <= Len(cs) THEN Enter(cs[f.i])
      ELSE IF b = "parallel" THEN Return(ParallelResult(FromIter(f.acc)))
      ELSE Return(SeriesResult(FromIter(f.acc)))

PCall(n, t) ==
  /\ Idle
  /\ stack' = << Frame(n) >>
  /\ root' = << n, t >>
  /\ outcome' = Pending
  /\ last' = NoCall
  /\ UNCHANGED << nodes, lists, nlists >>

PStep ==
  /\ stack # << >>
  /\ stack' = Step.stack
  /\ outcome' = Step.outcome
  /\ UNCHANGED << nodes, lists, nlists, last, root >>

NextEval ==
  \/ \E l \in Rates : NewComponent(l)
  \/ \E cs \in SeqsUpTo(NodeIds, MaxLen) : NewList(cs)
  \/ \E li \in 0..nlists, parallel \in BOOLEAN, series \in BOOLEAN :
       SystemInit(li, parallel, series)
  \/ \E li \in 0..nlists, n \in NodeIds : ListAppend(li, n)
  \/ \E n \in NodeIds, t \in Times : PCall(n, t)
  \/ PStep

\* A call in progress keeps running: the interpreter does not stop by itself.
SpecEval == Init /\ [][NextEval]_vars /\ WF_vars(PStep)

\* ------------------------------------------------------------------ structure
\* The nodes a System refers to directly, and those it contains transitively.
Kids(n) == IF IsSystem(nodes, n) THEN {lists[nodes[n].comps][i] : i \in 1..Len(lists[nodes[n].comps])}
           ELSE {}
RECURSIVE Below(_, _)
Below(S, k) == IF k = 0 THEN S ELSE Below(S \cup UNION {Kids(m) : m \in S}, k - 1)
Contains(n) == Below(Kids(n), MaxNodes)
OnCycle(n) == n \in Contains(n)
Acyclic(n) == ~OnCycle(n) /\ \A m \in Contains(n) : ~OnCycle(m)
\* The same through Systems that have a flag set: those whose p calls p on
\* their children.
FlagKids(n) == IF IsSystem(nodes, n) /\ Branch(nodes[n]) # "none" THEN Kids(n) ELSE {}
RECURSIVE FlagBelow(_, _)
FlagBelow(S, k) ==
  IF k = 0 THEN S ELSE FlagBelow(S \cup UNION {FlagKids(m) : m \in S}, k - 1)
OnFlagCycle(n) == n \in FlagBelow(FlagKids(n), MaxNodes)

Max(S) == CHOOSE x \in S : \A y \in S : y <= x
RECURSIVE Height(_, _)
Height(n, k) ==
  IF k = 0 \/ Kids(n) = {} THEN 1
  ELSE 1 + Max({Height(m, k - 1) : m \in Kids(n)})

\* The two descriptions of p agree on every call that ends.
StepwiseAgrees ==
  (stack = << >> /\ outcome # NoEval) => outcome = P(root[1], root[2])

\* ------------------------------------------------------------------ properties
CalledP == last.op = "p" /\ IsSystem(nodes, last.self)
Kid(i) == Children(nodes, lists, last.self)[i]
NKids  == Len(Children(nodes, lists, last.self))
Between01(o) == o.k = "num" /\ o.v # Zero /\ o.v # One

\* The left-to-right product f[1] * ... * f[k] of Python operands.
RECURSIVE ProdTo(_, _)
ProdTo(f, k) == IF k = 0 THEN Num(One) ELSE PyMul(ProdTo(f, k - 1), f[k])

\* C1: every call of p(t) on a System, whatever its children and flags,
\* returns a number r with 0 <= r <= 1.
C1_SystemPInUnitInterval ==
  CalledP => /\ last.out.k = "num"
             /\ Leq(Zero, last.out.v)
             /\ Leq(last.out.v, One)

C3_SeriesFlagProduct ==
  (/\ CalledP /\ nodes[last.self].series
   /\ \A i \in 1..NKids : P(Kid(i), last.t).k = "num") =>
    /\ last.q = Children(nodes, lists, last.self)
    /\ last.out = ProdTo([i \in 1..NKids |-> P(Kid(i), last.t)], NKids)

C5_SingleChildIdentity ==
  (/\ CalledP /\ NKids = 1
   /\ Branch(nodes[last.self]) # "none"
   /\ P(Kid(1), last.t).k = "num") =>
    last.out = P(Kid(1), last.t)

\* C5, amended: a System with exactly one child c returns c.p(t) itself on the
\* series branch (None converted to nan), and 1 - (1 - c.p(t)) in
\* floating-point arithmetic on the parallel branch: that is within half a unit
\* in the last place of 1 of c.p(t), and is c.p(t) when c.p(t) >= 1/2.
Half == [m |-> 1, e |-> 1]
C5_SingleChildUpToRounding ==
  (CalledP /\ NKids = 1 /\ Branch(nodes[last.self]) # "none") =>
    LET c == P(Kid(1), last.t)
        s == c.v.e + last.out.v.e + MantBits + 1
    IN  /\ Branch(nodes[last.self]) = "series" => last.out = ToFloat(c)
        /\ Branch(nodes[last.self]) = "parallel" =>
             /\ last.out = PyOneMinus(PyOneMinus(c))
             /\ c.k = "num" =>
                  /\ last.out.k = "num"
                  /\ AbsDiff2(last.out.v, c.v, s) <= Pow2(s - MantBits - 1)
                  /\ Leq(Half, c.v) => last.out = c

C5_Witness ==
  /\ CalledP /\ NKids = 1
  /\ Branch(nodes[last.self]) = "parallel"
  /\ P(Kid(1), last.t).k = "num"
  /\ last.out # P(Kid(1), last.t)

\* C6: no System exists, and none is evaluated by p(t), with neither or both
\* of the flags parallel and series set.
C6_ExactlyOneTopology ==
  \A n \in NodeIds :
    IsSystem(nodes, n) => (nodes[n].parallel # nodes[n].series)

\* C7: no two Systems hold the same list object, and no step changes the
\* children of a System that exists.
C7_ExclusiveFixedChildren ==
  [][ /\ \A a, b \in 1..Len(nodes') :
           (a # b /\ IsSystem(nodes', a) /\ IsSystem(nodes', b))
             => nodes'[a].comps # nodes'[b].comps
      /\ \A n \in NodeIds :
           IsSystem(nodes, n) => Children(nodes', lists', n) = Children(nodes, lists, n)
    ]_vars

\* C8: a call of p or condProb changes no Component, no System and no list
\* and stores no result: what a call of p(t) returned is what p(t) on that
\* node returns after it, whatever calls came before.
C8_CallsArePure ==
  [][ last'.op # "none" =>
        /\ nodes' = nodes /\ lists' = lists /\ nlists' = nlists
        /\ last'.op = "p" =>
             last'.out = NodeP(nodes', lists', last'.self, last'.t, RecLimit)
    ]_vars

C8_Witness ==
  /\ CalledP /\ NKids > 0
  /\ Between01(last.out)

\* C9: a call of p(t) on a structure in which no System contains itself ends
\* without exhausting the stack, and never holds more frames than the
\* structure is deep; a call on a System with a flag set that contains itself
\* never returns.
C9_TerminatesIffAcyclic ==
  /\ []((stack # << >> /\ Acyclic(root[1]))
          => Len(stack) <= Height(root[1], MaxNodes))
  /\ []((stack # << >> /\ Acyclic(root[1]))
          => <>(stack = << >> /\ outcome.k # "RecursionError"))
  /\ []((/\ stack = << >> /\ root # NoRoot
         /\ IsSystem(nodes, root[1]) /\ Branch(nodes[root[1]]) # "none"
         /\ OnCycle(root[1]))
          => Raised(outcome))

\* C9, the part that holds: as above, but the call never returns only when
\* the System contains itself through Systems that all have a flag set; a
\* System with neither flag returns None without calling its children, which
\* ends the recursion there.
C9_TerminatesIffNoFlagCycle ==
  /\ []((stack # << >> /\ Acyclic(root[1]))
          => Len(stack) <= Height(root[1], MaxNodes))
  /\ []((stack # << >> /\ Acyclic(root[1]))
          => <>(stack = << >> /\ outcome.k # "RecursionError"))
  /\ []((stack = << >> /\ root # NoRoot /\ OnFlagCycle(root[1]))
          => Raised(outcome))

\* C10: a System with an empty children list is constructed and evaluated:
\* p(t) calls no child and returns 1 on the series branch, 0 on the parallel
\* branch.
C10_EmptyChildren ==
  (CalledP /\ NKids = 0) =>
    /\ last.q = << >>
    /\ Branch(nodes[last.self]) = "series" => last.out = Num(One)
    /\ Branch(nodes[last.self]) = "parallel" => last.out = Num(Zero)

C10_Witness ==
  /\ CalledP /\ NKids = 0
  /\ Branch(nodes[last.self]) = "series"
  /\ last.t > 0
  /\ last.out = Num(One)

====
